---------------------------- MODULE Spec2Model ----------------------------
(***************************************************************************)
(* A model of the crawl engine of geo-web: class WebsiteCrawler of         *)
(* web_crawler.py.  One crawl session object (self) is modelled by the     *)
(* variables below; one action models one iteration of the while loop of   *)
(* crawl(), with everything the iteration calls.                           *)
(*                                                                         *)
(* Representation.  A URL (a Python str) is a sequence of tokens, e.g.     *)
(* <<"http://", "seed.com", "/pic", ".jpg", "?", "v=1", "#", "top">>; the  *)
(* empty string is <<>>.  urlparse splits that sequence at the first "#"   *)
(* and the first "?", str.endswith looks at its last token.  A parsed      *)
(* document (soup) is the sequence of its elements in document order.  A   *)
(* text is a sequence of chunks [w, n, qmark]: the word w repeated n       *)
(* times, qmark telling whether w contains a question mark.                *)
(***************************************************************************)
EXTENDS Integers, Sequences, FiniteSets, TLC

VARIABLES
    start_url,          \* self.start_url
    max_pages,          \* self.max_pages
    same_domain_only,   \* self.same_domain_only
    domain,             \* self.domain
    visited_urls,       \* self.visited_urls (a set)
    to_visit,           \* self.to_visit (a list, the frontier)
    pages_data,         \* self.pages_data (a list of page records)
    structured_data,    \* self.structured_data (a list of records)
    site_metadata,      \* self.site_metadata (a dict)
    pc,                 \* where the caller of crawl() is: "idle", "running", "returned", "raised"
    result,             \* the bundle the last crawl() call returned
    calls,              \* number of crawl() calls that have returned
    fetch_log,          \* the URLs requests.get was called with, in order
    last,               \* what the last step did: [kind, url, response, raised] (observation only)
    response_log,       \* what requests.get answered, call by call: [kind, soup]
    enqueue_log,        \* the URLs appended to self.to_visit, in order (the seed first)
    probe,              \* the URL a caller hands to is_valid_url
    answers,            \* what is_valid_url answered for probe, call by call
    doc,                \* the parsed document a caller hands to extract_page_content
    extracted           \* what extract_page_content returned for doc: <<>> or <<page>>

vars == <<start_url, max_pages, same_domain_only, domain, visited_urls, to_visit,
          pages_data, structured_data, site_metadata, pc, result, calls,
          fetch_log, last, response_log, enqueue_log, probe, answers, doc, extracted>>

(***************************************************************************)
(* Bounds of the model.                                                    *)
(***************************************************************************)
MaxPagesBound == 3
MaxCalls == 2
MaxFilterCalls == 2
MaxDocLen == 4

(***************************************************************************)
(* Program constants.                                                      *)
(***************************************************************************)
ThinThreshold == 300

NonContentExtensions ==
    {".jpg", ".jpeg", ".png", ".gif", ".pdf", ".zip", ".css", ".js"}

SkippedSchemes == {"javascript:", "mailto:", "tel:"}

HeadingLevels == 1..6

(***************************************************************************)
(* Sequence helpers.                                                       *)
(***************************************************************************)
Contains(s, x) == \E i \in 1..Len(s) : s[i] = x

IndexOf(s, x) ==
    IF Contains(s, x) THEN CHOOSE i \in 1..Len(s) : s[i] = x /\ \A j \in 1..(i-1) : s[j] # x
    ELSE Len(s) + 1

Prefix(s, n) == SubSeq(s, 1, n)

Suffix(s, n) == SubSeq(s, n, Len(s))

RECURSIVE AppendNew_NoQueueCheck(_, _, _)
(* mutant: a link is tested against the visited set only *)
AppendNew_NoQueueCheck(queue, visited, links) ==
    IF links = <<>> THEN queue
    ELSE LET link == Head(links)
             q2 == IF link \notin visited THEN Append(queue, link) ELSE queue
         IN AppendNew_NoQueueCheck(q2, visited, Tail(links))

RECURSIVE AppendNew(_, _, _)
(* crawl(), lines 224-226: append each link that is neither visited nor queued *)
AppendNew(queue, visited, links) ==
    IF links = <<>> THEN queue
    ELSE LET link == Head(links)
             q2 == IF link \notin visited /\ ~Contains(queue, link)
                   THEN Append(queue, link) ELSE queue
         IN AppendNew(q2, visited, Tail(links))

(***************************************************************************)
(* urllib.parse.urlparse and urljoin on token sequences.                   *)
(***************************************************************************)
HasScheme(url) == Len(url) >= 1 /\ url[1] = "http://"

urlparse(url) ==
    LET hashAt  == IndexOf(url, "#")
        noFrag  == Prefix(url, hashAt - 1)
        qAt     == IndexOf(noFrag, "?")
        noQuery == Prefix(noFrag, qAt - 1)
    IN [ scheme   |-> IF HasScheme(url) THEN "http" ELSE "",
         netloc   |-> IF HasScheme(url) /\ Len(noQuery) >= 2 THEN noQuery[2] ELSE "",
         path     |-> IF HasScheme(url) THEN Suffix(noQuery, 3) ELSE noQuery,
         query    |-> Suffix(noFrag, qAt + 1),
         fragment |-> Suffix(url, hashAt + 1) ]

(* urlsplit raises ValueError("Invalid IPv6 URL") on an unbalanced "[" in the netloc *)
RaisesValueError(url) == HasScheme(url) /\ Len(url) >= 2 /\ url[2] = "["

urljoin(base, href) ==
    IF href = <<>> THEN base
    ELSE IF HasScheme(href) THEN href
    ELSE IF href[1] = "#" THEN Prefix(base, IndexOf(base, "#") - 1) \o href
    ELSE IF href[1] = "?" THEN
        LET noFrag == Prefix(base, IndexOf(base, "#") - 1)
        IN Prefix(noFrag, IndexOf(noFrag, "?") - 1) \o href
    ELSE Prefix(base, 2) \o href

(* str.endswith(tuple): the string ends with one of the suffixes *)
endswith(url, suffixes) == url # <<>> /\ url[Len(url)] \in suffixes

(***************************************************************************)
(* Parsed documents.  An element is [tag, href, text, attr]:               *)
(*   "title"             text: the title; attr "nostring" when             *)
(*                       soup.title.string is None (an empty <title>)      *)
(*   "meta_description"  text: the content attribute                      *)
(*   "a"                 href: the href attribute as tokens; attr "nohref" *)
(*                       for an anchor without one                         *)
(*   "script_ld"         attr: the JSON-LD payload, "valid:<data>",        *)
(*                       "malformed", "none" (script.string is None) or    *)
(*                       "deep" (nested beyond the recursion limit)        *)
(*   "itemscope"         attr: the itemtype attribute ("" when absent)     *)
(*   "h1".."h6", "p", "strong", "text", "img", "script", "style",          *)
(*   "noscript", "iframe"   text: the element's text                       *)
(***************************************************************************)
El(tag, href, text, attr) == [tag |-> tag, href |-> href, text |-> text, attr |-> attr]

Words(w, n) == <<[w |-> w, n |-> n, qmark |-> FALSE]>>

Question(w, n) == <<[w |-> w, n |-> n, qmark |-> TRUE]>>

HeadingTag(i) ==
    CASE i = 1 -> "h1" [] i = 2 -> "h2" [] i = 3 -> "h3"
      [] i = 4 -> "h4" [] i = 5 -> "h5" [] i = 6 -> "h6"

(* soup.find_all(tag): the elements with that tag, in document order *)
find_all(soup, tags) == SelectSeq(soup, LAMBDA e : e.tag \in tags)

(***************************************************************************)
(* The session object, as a record of its fields.                          *)
(***************************************************************************)
Self ==
    [ start_url |-> start_url, max_pages |-> max_pages,
      same_domain_only |-> same_domain_only, domain |-> domain,
      visited_urls |-> visited_urls, to_visit |-> to_visit,
      pages_data |-> pages_data, structured_data |-> structured_data,
      site_metadata |-> site_metadata ]

(* __init__, lines 27-39: heading_count is a defaultdict(int), empty at first *)
InitialMetadata(dom) ==
    [ title |-> <<>>, description |-> <<>>, domain |-> dom,
      pages_crawled |-> 0, total_word_count |-> 0,
      heading_count |-> [k \in {} |-> 0],
      has_schema_markup |-> FALSE, internal_links |-> 0, external_links |-> 0,
      image_count |-> 0, pages_with_thin_content |-> 0 ]

(* reading a defaultdict(int) key without creating it *)
HeadingCount(meta, i) ==
    IF HeadingTag(i) \in DOMAIN meta.heading_count
    THEN meta.heading_count[HeadingTag(i)] ELSE 0

(***************************************************************************)
(* is_valid_url, lines 41-59.                                              *)
(***************************************************************************)
(* mutant: the visited set is not consulted *)
is_valid_url_IgnoresVisited(self, url) ==
    IF url = <<>> THEN FALSE
    ELSE IF urlparse(url).fragment # <<>> THEN FALSE
    ELSE IF self.same_domain_only /\ urlparse(url).netloc # self.domain THEN FALSE
    ELSE IF endswith(url, NonContentExtensions) THEN FALSE
    ELSE TRUE

(* mutant: the same-domain rule (lines 52-53) left out *)
is_valid_url_AnyDomain(self, url) ==
    IF url = <<>> \/ url \in self.visited_urls THEN FALSE
    ELSE IF urlparse(url).fragment # <<>> THEN FALSE
    ELSE IF endswith(url, NonContentExtensions) THEN FALSE
    ELSE TRUE

is_valid_url(self, url) ==
    IF url = <<>> \/ url \in self.visited_urls THEN FALSE
    ELSE IF urlparse(url).fragment # <<>> THEN FALSE
    ELSE IF self.same_domain_only /\ urlparse(url).netloc # self.domain THEN FALSE
    ELSE IF endswith(url, NonContentExtensions) THEN FALSE
    ELSE TRUE

(***************************************************************************)
(* extract_links, lines 61-77.  The result is [self, links, raised]:       *)
(* raised is "ValueError" when urljoin/urlparse raised part-way, and then  *)
(* the counters hold what was counted before the raise.                    *)
(***************************************************************************)
(* mutant: a link that is already waiting in the frontier is not counted again *)
CountLink_OnlyNew(self, full_url) ==
    IF Contains(self.to_visit, full_url) THEN self
    ELSE IF urlparse(full_url).netloc = self.domain
    THEN [self EXCEPT !.site_metadata.internal_links = @ + 1]
    ELSE [self EXCEPT !.site_metadata.external_links = @ + 1]

(* lines 72-76: count the accepted link as internal or external *)
CountLink(self, full_url) ==
    IF urlparse(full_url).netloc = self.domain
    THEN [self EXCEPT !.site_metadata.internal_links = @ + 1]
    ELSE [self EXCEPT !.site_metadata.external_links = @ + 1]

RECURSIVE ExtractLinksFrom(_, _, _, _)
ExtractLinksFrom(self, anchors, current_url, links) ==
    IF anchors = <<>> THEN [self |-> self, links |-> links, raised |-> "none"]
    ELSE LET href == Head(anchors).href
         IN IF href # <<>> /\ href[1] \notin SkippedSchemes
            THEN IF RaisesValueError(href)
                 THEN [self |-> self, links |-> <<>>, raised |-> "ValueError"]
                 ELSE LET full_url == urljoin(current_url, href)
                      IN IF is_valid_url(self, full_url)
                         THEN ExtractLinksFrom(CountLink(self, full_url), Tail(anchors),
                                               current_url, Append(links, full_url))
                         ELSE ExtractLinksFrom(self, Tail(anchors), current_url, links)
            ELSE ExtractLinksFrom(self, Tail(anchors), current_url, links)

extract_links(self, soup, current_url) ==
    ExtractLinksFrom(self,
                     SelectSeq(soup, LAMBDA e : e.tag = "a" /\ e.attr # "nohref"),
                     current_url, <<>>)

(***************************************************************************)
(* extract_structured_data, lines 79-114.  The result is                   *)
(* [self, structured_data, raised].  json.loads raises JSONDecodeError on  *)
(* malformed text and TypeError on None, both caught at line 93, and       *)
(* RecursionError on text nested beyond the recursion limit, which is not  *)
(* caught there and leaves the method.                                     *)
(***************************************************************************)
json_loads(payload) ==
    CASE payload = "none"      -> [raised |-> "TypeError", data |-> ""]
      [] payload = "malformed" -> [raised |-> "JSONDecodeError", data |-> ""]
      [] payload = "deep"      -> [raised |-> "RecursionError", data |-> ""]
      [] OTHER                 -> [raised |-> "none", data |-> payload]

CaughtAtLine93 == {"JSONDecodeError", "TypeError"}

RECURSIVE ExtractJsonLd(_, _, _, _)
ExtractJsonLd(self, scripts, url, found) ==
    IF scripts = <<>> THEN [self |-> self, structured_data |-> found, raised |-> "none"]
    ELSE LET parsed == json_loads(Head(scripts).attr)
         IN IF parsed.raised = "none"
            THEN ExtractJsonLd([self EXCEPT !.site_metadata.has_schema_markup = TRUE],
                               Tail(scripts), url,
                               Append(found, [url |-> url, type |-> "JSON-LD",
                                              data |-> <<parsed.data>>]))
            ELSE IF parsed.raised \in CaughtAtLine93
            THEN ExtractJsonLd(self, Tail(scripts), url, found)
            ELSE [self |-> self, structured_data |-> <<>>, raised |-> parsed.raised]

(* lines 97-105: one item per itemscope element with a non-empty itemtype *)
MicrodataItems(soup, url) ==
    LET typed == SelectSeq(soup, LAMBDA e : e.tag = "itemscope" /\ e.attr # "")
    IN [i \in 1..Len(typed) |-> [type |-> typed[i].attr, url |-> url]]

(* mutant: the flag is set from this page's records alone *)
extract_structured_data_FlagPerPage(self, soup, url) ==
    LET ld    == ExtractJsonLd(self, find_all(soup, {"script_ld"}), url, <<>>)
        items == MicrodataItems(soup, url)
        found == IF items # <<>>
                 THEN Append(ld.structured_data,
                             [url |-> url, type |-> "Microdata", data |-> items])
                 ELSE ld.structured_data
    IN IF ld.raised # "none" THEN ld
       ELSE [ self |-> [ld.self EXCEPT !.site_metadata.has_schema_markup = (found # <<>>)],
              structured_data |-> found, raised |-> "none" ]

extract_structured_data(self, soup, url) ==
    LET ld    == ExtractJsonLd(self, find_all(soup, {"script_ld"}), url, <<>>)
        items == MicrodataItems(soup, url)
    IN IF ld.raised # "none" THEN ld
       ELSE IF items # <<>>
       THEN [ self |-> [ld.self EXCEPT !.site_metadata.has_schema_markup = TRUE],
              structured_data |-> Append(ld.structured_data,
                                         [url |-> url, type |-> "Microdata", data |-> items]),
              raised |-> "none" ]
       ELSE ld

(***************************************************************************)
(* extract_page_content, lines 116-191.  The result is                     *)
(* [self, page, raised]; raised is "AttributeError" when the document has  *)
(* a title element whose .string is None (line 119), before anything is    *)
(* written.                                                                *)
(***************************************************************************)
(* lines 136-137: script, style, noscript, iframe and head are removed; the
   title and the meta elements live in head *)
StrippedTags ==
    {"script", "script_ld", "style", "noscript", "iframe", "title", "meta_description"}

StripNonContent(soup) == SelectSeq(soup, LAMBDA e : e.tag \notin StrippedTags)

RECURSIVE ConcatText(_)
(* line 139-140: the texts of the elements, joined *)
ConcatText(soup) == IF soup = <<>> THEN <<>> ELSE Head(soup).text \o ConcatText(Tail(soup))

RECURSIVE CountWords(_)
(* line 141: len(cleaned_text.split()) *)
CountWords(text) == IF text = <<>> THEN 0 ELSE Head(text).n + CountWords(Tail(text))

(* mutant: the total is assigned, not added to *)
AddWordCount_Overwrite(meta, word_count) == [meta EXCEPT !.total_word_count = word_count]

(* line 144 *)
AddWordCount(meta, word_count) == [meta EXCEPT !.total_word_count = @ + word_count]

(* mutant: a page of exactly the threshold counts as thin *)
IsThin_Inclusive(word_count) == word_count <= ThinThreshold

(* line 145 *)
IsThin(word_count) == word_count < ThinThreshold

(* mutant: each level's count is set to this page's count *)
AddHeadingCounts_Overwrite(meta, soup) ==
    [meta EXCEPT !.heading_count =
        [k \in {HeadingTag(i) : i \in HeadingLevels} |-> Len(find_all(soup, {k}))]]

(* lines 149-151: every level's key is created, and its count added *)
AddHeadingCounts(meta, soup) ==
    [meta EXCEPT !.heading_count =
        [k \in {HeadingTag(i) : i \in HeadingLevels} |->
            (IF k \in DOMAIN meta.heading_count THEN meta.heading_count[k] ELSE 0)
            + Len(find_all(soup, {k}))]]

RECURSIVE HeadingsFrom(_, _)
(* lines 157-163: all level-1 headings, then all level-2 headings, ... *)
HeadingsFrom(soup, i) ==
    IF i > 6 THEN <<>>
    ELSE LET hs == find_all(soup, {HeadingTag(i)})
         IN [j \in 1..Len(hs) |-> [level |-> i, text |-> hs[j].text]] \o HeadingsFrom(soup, i + 1)

HasQuestionMark(text) == \E j \in 1..Len(text) : text[j].qmark

QuestionTags == {"h2", "h3", "h4", "strong"}

(* line 174: find_next('p'), the position of the first p after position i, or 0 *)
FindNextP(soup, i) ==
    IF \E j \in (i+1)..Len(soup) : soup[j].tag = "p"
    THEN CHOOSE j \in (i+1)..Len(soup) :
            soup[j].tag = "p" /\ \A k \in (i+1)..(j-1) : soup[k].tag # "p"
    ELSE 0

(* line 171, string=lambda s: s and '?' in s: find_all hands the lambda the
   element's .string, which is None when the element has child tags or several
   strings (attr "nostring"); its text (get_text) may still hold a "?" *)
MatchesQuestion(e) == e.attr # "nostring" /\ HasQuestionMark(e.text)

RECURSIVE QaPairsFrom(_, _)
(* lines 169-180 *)
QaPairsFrom(soup, i) ==
    IF i > Len(soup) THEN <<>>
    ELSE IF soup[i].tag \in QuestionTags /\ MatchesQuestion(soup[i])
               /\ FindNextP(soup, i) # 0
    THEN <<[question |-> soup[i].text, answer |-> soup[FindNextP(soup, i)].text]>>
         \o QaPairsFrom(soup, i + 1)
    ELSE QaPairsFrom(soup, i + 1)

(* mutant: every page is taken for the home page *)
IsHomePage_Always(self, url) == TRUE

(* lines 122 and 132: url == self.start_url *)
IsHomePage(self, url) == url = self.start_url

extract_page_content(self, soup, url) ==
    LET titles == find_all(soup, {"title"})
        metas  == find_all(soup, {"meta_description"})
    IN IF titles # <<>> /\ titles[1].attr = "nostring"
       THEN [self |-> self, page |-> <<>>, raised |-> "AttributeError"]
       ELSE
       LET title      == IF titles # <<>> THEN titles[1].text ELSE <<>>
           meta_desc  == IF metas # <<>> THEN metas[1].text ELSE <<>>
           m1 == IF IsHomePage(self, url)
                 THEN [self.site_metadata EXCEPT !.title = title]
                 ELSE self.site_metadata
           m2 == IF metas # <<>> /\ IsHomePage(self, url)
                 THEN [m1 EXCEPT !.description = meta_desc]
                 ELSE m1
           body         == StripNonContent(soup)
           cleaned_text == ConcatText(body)
           word_count   == CountWords(cleaned_text)
           m3 == AddWordCount(m2, word_count)
           m4 == IF IsThin(word_count)
                 THEN [m3 EXCEPT !.pages_with_thin_content = @ + 1]
                 ELSE m3
           m5 == AddHeadingCounts(m4, body)
           m6 == [m5 EXCEPT !.image_count = @ + Len(find_all(body, {"img"}))]
           ps == SelectSeq(find_all(body, {"p"}), LAMBDA e : e.text # <<>>)
       IN [ self |-> [self EXCEPT !.site_metadata = m6],
            page |-> [ url |-> url, title |-> title, meta_description |-> meta_desc,
                       word_count |-> word_count,
                       headings |-> HeadingsFrom(body, 1),
                       paragraphs |-> [j \in 1..Len(ps) |-> ps[j].text],
                       qa_pairs |-> QaPairsFrom(body, 1),
                       full_text |-> cleaned_text ],
            raised |-> "none" ]

(***************************************************************************)
(* The web the crawl runs against: the URLs and documents it may meet.     *)
(***************************************************************************)
SeedUrl == <<"http://", "seed.com", "/">>

HrefA == <<"/a">>

HrefB == <<"/b">>

HrefExternal == <<"http://", "other.com", "/x">>

HrefFragment == <<"#", "top">>

HrefImageWithQuery == <<"/pic", ".jpg", "?", "v=1">>

HrefQueryEndsJs == <<"/dl", "?", "f=x", ".js">>

HrefMailto == <<"mailto:", "me@seed.com">>

HrefBad == <<"http://", "[">>

A(href) == El("a", href, <<>>, "href")

P(text) == El("p", <<>>, text, "")

H(i, text) == El(HeadingTag(i), <<>>, text, "")

JsonLd(payload) == El("script_ld", <<>>, <<>>, payload)

Title(text) == El("title", <<>>, text, "string")

DocEmpty == <<>>

(* two internal links, one external link, no structured data, 250 words *)
DocScenario ==
    << Title(Words("Home", 1)), El("meta_description", <<>>, Words("about", 2), ""),
       A(HrefA), A(HrefB), A(HrefExternal), P(Words("lorem", 250)) >>

(* exactly 300 words, a link back to the seed, one valid JSON-LD block *)
DocExact ==
    << Title(Words("Exact", 1)), H(1, Words("Top", 1)), H(2, Question("X?", 2)),
       P(Words("ipsum", 297)), A(HrefA), A(SeedUrl), A(HrefFragment),
       JsonLd("{A}"), El("img", <<>>, <<>>, "") >>

(* 299 words, a malformed block before a valid one, microdata, a link twice *)
DocThin ==
    << JsonLd("malformed"), JsonLd("{B}"), El("itemscope", <<>>, <<>>, "Product"),
       A(HrefB), A(HrefA), A(HrefA), A(HrefMailto), El("a", <<>>, <<>>, "nohref"),
       H(3, Words("Sub", 1)), P(Words("dolor", 298)), El("style", <<>>, Words("css", 40), "") >>

(* an empty <title>: soup.title.string is None *)
DocNoTitleString ==
    << El("title", <<>>, <<>>, "nostring"), A(HrefB), JsonLd("{A}"), P(Words("sit", 10)) >>

(* an href urljoin cannot parse, after a link that was counted *)
DocBadHref == << A(HrefA), A(HrefBad), A(HrefB), P(Words("amet", 5)) >>

(* a JSON-LD block nested too deep, after a valid one *)
DocDeepJson == << JsonLd("{A}"), JsonLd("deep"), JsonLd("none"), A(HrefB), P(Words("elit", 7)) >>

(* 301 words, headings out of level order, a trailing question, odd links *)
DocRich ==
    << H(2, Words("Two", 1)), H(1, Words("One", 1)), H(2, Words("Again", 1)),
       P(Words("sed", 296)), El("strong", <<>>, Question("Why?", 2), ""),
       El("itemscope", <<>>, <<>>, ""), A(HrefExternal), A(HrefImageWithQuery),
       A(HrefQueryEndsJs), A(<<"/pic", ".jpg">>) >>

(* a link to a third internal page, listed before a known one *)
DocChain == << A(<<"/c">>), A(HrefB), H(2, Words("Chain", 1)), P(Words("magna", 3)) >>

(* the scenario again with the links absolute and in another order *)
DocScenarioAlt ==
    << A(HrefExternal), A(<<"http://", "seed.com", "/b">>), P(Words("lorem", 250)),
       A(HrefA) >>

SiteDocs ==
    {DocEmpty, DocScenario, DocScenarioAlt, DocExact, DocThin, DocNoTitleString,
     DocBadHref, DocDeepJson, DocRich, DocChain}

(* what requests.get can do, lines 213-217: raise, answer with a status other
   than 200, answer with another content type, or answer 200 text/html *)
Responses(url) ==
    IF ~HasScheme(url) THEN {[kind |-> "exception", soup |-> <<>>]}
    ELSE {[kind |-> k, soup |-> <<>>] : k \in {"exception", "status", "content_type"}}
         \cup {[kind |-> "ok", soup |-> d] : d \in SiteDocs}

(***************************************************************************)
(* crawl, lines 193-251.                                                   *)
(***************************************************************************)
(* mutant: the budget test lets one more URL through *)
LoopCondition_OffByOne(self) ==
    self.to_visit # <<>> /\ Cardinality(self.visited_urls) <= self.max_pages

(* line 195 *)
LoopCondition(self) ==
    self.to_visit # <<>> /\ Cardinality(self.visited_urls) < self.max_pages

(* mutant: the head is read but stays in the frontier *)
Pop_Peek(queue) == [url |-> Head(queue), rest |-> queue]

(* mutant: pop() instead of pop(0), the newest URL first *)
Pop_Last(queue) == [url |-> queue[Len(queue)], rest |-> Prefix(queue, Len(queue) - 1)]

(* line 197: self.to_visit.pop(0) *)
Pop(queue) == [url |-> Head(queue), rest |-> Tail(queue)]

(* mutant: the URL is not added to the visited set *)
MarkVisited_Forgotten(visited, url) == visited

(* line 206 *)
MarkVisited(visited, url) == visited \cup {url}

(* line 240: except Exception catches every exception the body can raise *)
ExceptionClasses == {"RequestException", "ValueError", "AttributeError", "RecursionError"}

(* mutant: the handler names requests' exception only *)
CaughtAtLine240_RequestsOnly(exc) == exc = "RequestException"

CaughtAtLine240(exc) == exc \in ExceptionClasses

(* mutant: every extracted link is appended *)
Enqueue_Unchecked(self, links) == [self EXCEPT !.to_visit = @ \o links]

(* lines 222-226 *)
Enqueue(self, links) ==
    [self EXCEPT !.to_visit = AppendNew(self.to_visit, self.visited_urls, links)]

(* lines 234-238 *)
RecordPage(self, page) ==
    [self EXCEPT !.pages_data = Append(@, page),
                 !.site_metadata.pages_crawled = @ + 1]

(* lines 219-238, what follows a successful fetch: [self, kind, raised] *)
ProcessPage(self, current_url, soup) ==
    LET l == extract_links(self, soup, current_url)
    IN IF l.raised # "none"
       THEN [self |-> l.self, kind |-> "page_failed", raised |-> l.raised]
       ELSE
       LET s1 == Enqueue(l.self, l.links)
           sd == extract_structured_data(s1, soup, current_url)
       IN IF sd.raised # "none"
          THEN [self |-> sd.self, kind |-> "page_failed", raised |-> sd.raised]
          ELSE
          LET s2 == [sd.self EXCEPT !.structured_data = @ \o sd.structured_data]
              c  == extract_page_content(s2, soup, current_url)
          IN IF c.raised # "none"
             THEN [self |-> c.self, kind |-> "page_failed", raised |-> c.raised]
             ELSE [self |-> RecordPage(c.self, c.page), kind |-> "processed",
                   raised |-> "none"]

(* mutant: the status code is not looked at, only the content type *)
ProcessResponse_NoStatusCheck(self, current_url, response) ==
    IF response.kind = "exception"
    THEN [self |-> self, kind |-> "fetch_failed", raised |-> "RequestException"]
    ELSE IF response.kind = "content_type"
    THEN [self |-> self, kind |-> "fetch_failed", raised |-> "none"]
    ELSE ProcessPage(self, current_url, response.soup)

(* lines 208-241, the body of the try: [self, kind, raised] *)
ProcessResponse(self, current_url, response) ==
    IF response.kind = "exception"
    THEN [self |-> self, kind |-> "fetch_failed", raised |-> "RequestException"]
    ELSE IF response.kind # "ok"
    THEN [self |-> self, kind |-> "fetch_failed", raised |-> "none"]
    ELSE ProcessPage(self, current_url, response.soup)

(* true division of two ints, line 245, as the fraction num/den *)
TrueDiv(a, b) == [num |-> a, den |-> b]

(* mutant: the average is written over the word total *)
Finalize_InPlace(meta) ==
    IF meta.pages_crawled > 0
    THEN [meta EXCEPT !.total_word_count = @ \div meta.pages_crawled]
    ELSE meta

(* mutant: the average is guarded by the word total, not the page count *)
Finalize_WhenWordsPositive(meta) ==
    IF meta.total_word_count > 0
    THEN [k \in DOMAIN meta \cup {"avg_word_count"} |->
            IF k = "avg_word_count"
            THEN TrueDiv(meta.total_word_count, meta.pages_crawled)
            ELSE meta[k]]
    ELSE meta

(* lines 243-245 *)
Finalize(meta) ==
    IF meta.pages_crawled > 0
    THEN [k \in DOMAIN meta \cup {"avg_word_count"} |->
            IF k = "avg_word_count"
            THEN TrueDiv(meta.total_word_count, meta.pages_crawled)
            ELSE meta[k]]
    ELSE meta

(* lines 247-251 *)
Bundle(meta, pages, sd) == [metadata |-> meta, pages |-> pages, structured_data |-> sd]

NoBundle == Bundle(<<>>, <<>>, <<>>)

Init ==
    /\ start_url \in {SeedUrl, <<>>}
    /\ max_pages \in -1..MaxPagesBound
    /\ same_domain_only \in BOOLEAN
    /\ domain = urlparse(start_url).netloc
    /\ visited_urls = {}
    /\ to_visit = <<start_url>>
    /\ pages_data = <<>>
    /\ structured_data = <<>>
    /\ site_metadata = InitialMetadata(domain)
    /\ pc = "idle"
    /\ result = NoBundle
    /\ calls = 0
    /\ fetch_log = <<>>
    /\ last = [kind |-> "init", url |-> <<>>, response |-> "none", raised |-> "none"]
    /\ response_log = <<>>
    /\ enqueue_log = <<start_url>>
    /\ probe = <<>>
    /\ answers = <<>>
    /\ doc = <<>>
    /\ extracted = <<>>

(* the caller calls crawl() *)
Call ==
    /\ pc \in {"idle", "returned"}
    /\ calls < MaxCalls
    /\ pc' = "running"
    /\ last' = [kind |-> "call", url |-> <<>>, response |-> "none", raised |-> "none"]
    /\ UNCHANGED <<doc, extracted, start_url, max_pages, same_domain_only, domain, visited_urls,
                   to_visit, pages_data, structured_data, site_metadata, result,
                   calls, fetch_log, response_log, enqueue_log, probe, answers>>

(* one iteration of the while loop, lines 195-241 *)
LoopIteration ==
    /\ pc = "running"
    /\ LoopCondition(Self)
    /\ LET current_url == Pop(to_visit).url
           rest == Pop(to_visit).rest
       IN IF current_url \in visited_urls
          THEN /\ to_visit' = rest
               /\ last' = [kind |-> "skipped", url |-> current_url,
                           response |-> "none", raised |-> "none"]
               /\ UNCHANGED <<visited_urls, pages_data, structured_data,
                              site_metadata, pc, fetch_log, response_log, enqueue_log>>
          ELSE \E response \in Responses(current_url) :
               LET s0 == [Self EXCEPT !.to_visit = rest,
                                      !.visited_urls = MarkVisited(@, current_url)]
                   r  == ProcessResponse(s0, current_url, response)
               IN /\ to_visit' = r.self.to_visit
                  /\ enqueue_log' = enqueue_log
                         \o SubSeq(r.self.to_visit, Len(rest) + 1, Len(r.self.to_visit))
                  /\ response_log' = Append(response_log, response)
                  /\ visited_urls' = r.self.visited_urls
                  /\ pages_data' = r.self.pages_data
                  /\ structured_data' = r.self.structured_data
                  /\ site_metadata' = r.self.site_metadata
                  /\ fetch_log' = Append(fetch_log, current_url)
                  /\ pc' = IF r.raised = "none" \/ CaughtAtLine240(r.raised)
                           THEN "running" ELSE "raised"
                  /\ last' = [kind |-> r.kind, url |-> current_url,
                              response |-> response.kind, raised |-> r.raised]
    /\ UNCHANGED <<doc, extracted, start_url, max_pages, same_domain_only, domain, result, calls,
                   probe, answers>>

(* the loop has ended: lines 243-251 *)
Return ==
    /\ pc = "running"
    /\ ~LoopCondition(Self)
    /\ site_metadata' = Finalize(site_metadata)
    /\ result' = Bundle(site_metadata', pages_data, structured_data)
    /\ pc' = "returned"
    /\ calls' = calls + 1
    /\ last' = [kind |-> "return", url |-> <<>>, response |-> "none", raised |-> "none"]
    /\ UNCHANGED <<doc, extracted, start_url, max_pages, same_domain_only, domain, visited_urls,
                   to_visit, pages_data, structured_data, fetch_log, response_log,
                   enqueue_log, probe, answers>>

Next == Call \/ LoopIteration \/ Return

Spec == Init /\ [][Next]_vars

(* crawl() is one sequential call: once started, the interpreter keeps executing
   the while loop (line 195) and the statements after it (lines 243-251), so both
   steps are taken whenever they stay possible; the caller's calls are not forced *)
SpecLive == Spec /\ WF_vars(LoopIteration) /\ WF_vars(Return)

(***************************************************************************)
(* The filter on its own: a caller hands is_valid_url a candidate URL      *)
(* (line 69), any number of times, and the crawl loop may mark that URL    *)
(* visited in between (line 206).                                          *)
(***************************************************************************)
FilterUrls ==
    {<<>>} \cup
    { <<"http://", host>> \o path \o query \o fragment :
        host \in {"seed.com", "other.com"},
        path \in {<<"/">>, <<"/a">>, <<"/pic", ".jpg">>, <<"/app", ".js">>},
        query \in {<<>>, <<"?", "v=1">>, <<"?", "f=x", ".js">>},
        fragment \in {<<>>, <<"#", "top">>} }

InitFilter ==
    /\ start_url = SeedUrl
    /\ max_pages = MaxPagesBound
    /\ same_domain_only \in BOOLEAN
    /\ domain = urlparse(start_url).netloc
    /\ probe \in FilterUrls
    /\ visited_urls \in {{}, {SeedUrl}, {SeedUrl, probe}}
    /\ to_visit = <<>>
    /\ pages_data = <<>>
    /\ structured_data = <<>>
    /\ site_metadata = InitialMetadata(domain)
    /\ pc = "running"
    /\ result = NoBundle
    /\ calls = 0
    /\ fetch_log = <<>>
    /\ last = [kind |-> "init", url |-> <<>>, response |-> "none", raised |-> "none"]
    /\ response_log = <<>>
    /\ enqueue_log = <<start_url>>
    /\ answers = <<>>
    /\ doc = <<>>
    /\ extracted = <<>>

(* line 69: is_valid_url is called on the candidate *)
FilterCall ==
    /\ Len(answers) < MaxFilterCalls
    /\ answers' = Append(answers, [accept |-> is_valid_url(Self, probe),
                                   visited |-> visited_urls])
    /\ UNCHANGED <<doc, extracted, start_url, max_pages, same_domain_only, domain, visited_urls,
                   to_visit, pages_data, structured_data, site_metadata, pc, result,
                   calls, fetch_log, last, response_log, enqueue_log, probe>>

(* line 206: the crawl loop marks the candidate visited *)
InsertVisited ==
    /\ probe \notin visited_urls
    /\ visited_urls' = MarkVisited(visited_urls, probe)
    /\ UNCHANGED <<doc, extracted, start_url, max_pages, same_domain_only, domain,
                   to_visit, pages_data, structured_data, site_metadata, pc, result,
                   calls, fetch_log, last, response_log, enqueue_log, probe, answers>>

NextFilter == FilterCall \/ InsertVisited

SpecFilter == InitFilter /\ [][NextFilter]_vars

(***************************************************************************)
(* extract_page_content on its own: a caller hands it one document of the  *)
(* seed URL.  The documents are all sequences of at most MaxDocLen of the  *)
(* elements below: question-bearing and plain headings, a question heading *)
(* with nested markup (<h4>Which <em>one</em>?</h4>), paragraphs with      *)
(* different texts, an empty paragraph, and an element that is stripped.   *)
(***************************************************************************)
ContentElements ==
    { H(2, Question("How?", 1)), El("strong", <<>>, Question("Why?", 1), ""),
      H(1, Question("What?", 1)), H(3, Words("Plain", 1)),
      El("h4", <<>>, Question("Which?", 1), "nostring"),
      P(Words("first", 1)), P(Words("second", 2)), P(<<>>),
      El("style", <<>>, Question("p?", 1), "") }

ContentDocs == UNION { [1..n -> ContentElements] : n \in 0..MaxDocLen }

InitContent ==
    /\ start_url = SeedUrl
    /\ max_pages = MaxPagesBound
    /\ same_domain_only = TRUE
    /\ domain = urlparse(start_url).netloc
    /\ visited_urls = {start_url}
    /\ to_visit = <<>>
    /\ pages_data = <<>>
    /\ structured_data = <<>>
    /\ site_metadata = InitialMetadata(domain)
    /\ pc = "running"
    /\ result = NoBundle
    /\ calls = 0
    /\ fetch_log = <<start_url>>
    /\ last = [kind |-> "init", url |-> <<>>, response |-> "none", raised |-> "none"]
    /\ response_log = <<>>
    /\ enqueue_log = <<start_url>>
    /\ probe = <<>>
    /\ answers = <<>>
    /\ doc \in ContentDocs
    /\ extracted = <<>>

(* line 233: page_data = self.extract_page_content(soup, current_url) *)
ContentCall ==
    /\ extracted = <<>>
    /\ LET c == extract_page_content(Self, doc, start_url)
       IN /\ c.raised = "none"
          /\ extracted' = <<c.page>>
          /\ site_metadata' = c.self.site_metadata
    /\ UNCHANGED <<doc, start_url, max_pages, same_domain_only, domain, visited_urls,
                   to_visit, pages_data, structured_data, pc, result, calls,
                   fetch_log, last, response_log, enqueue_log, probe, answers>>

NextContent == ContentCall

SpecContent == InitContent /\ [][NextContent]_vars

(***************************************************************************)
(* Observations used by the properties.                                    *)
(***************************************************************************)
IterationKinds == {"skipped", "fetch_failed", "page_failed", "processed"}

FailureResponses == {"exception", "status", "content_type"}

NoDuplicates(s) == \A i, j \in 1..Len(s) : s[i] = s[j] => i = j

PageUrls == {pages_data[i].url : i \in 1..Len(pages_data)}

QueuedUrls == {to_visit[i] : i \in 1..Len(to_visit)}

RECURSIVE SumWordCounts(_)
SumWordCounts(pages) ==
    IF pages = <<>> THEN 0 ELSE Head(pages).word_count + SumWordCounts(Tail(pages))

ThinPageCount(pages) ==
    Cardinality({i \in 1..Len(pages) : pages[i].word_count < ThinThreshold})

RECURSIVE HeadingsOfLevel(_, _)
HeadingsOfLevel(pages, level) ==
    IF pages = <<>> THEN 0
    ELSE Cardinality({j \in 1..Len(Head(pages).headings) :
                         Head(pages).headings[j].level = level})
         + HeadingsOfLevel(Tail(pages), level)

(* attempts that left no page record *)
FailedAttempts == Len(fetch_log) - Len(pages_data)

(***************************************************************************)
(* C1.  After every loop iteration and in the returned bundle, the number  *)
(* of page records is at most max_pages and pages_crawled equals the       *)
(* number of page records, for every max_pages.                            *)
(* The constructor accepts a negative max_pages (see C13), and then the    *)
(* bundle holds 0 > max_pages records: the statement fails there.          *)
(***************************************************************************)
C1_PagesWithinBudget ==
    /\ last.kind \in IterationKinds =>
          /\ Len(pages_data) <= max_pages
          /\ site_metadata.pages_crawled = Len(pages_data)
    /\ pc = "returned" =>
          /\ Len(result.pages) <= max_pages
          /\ result.metadata.pages_crawled = Len(result.pages)

(* C1 for the budgets a validating constructor would accept (max_pages >= 0):
   the same statement, which holds *)
C1_PagesWithinBudget_NonNegative == max_pages >= 0 => C1_PagesWithinBudget

(***************************************************************************)
(* C2.  No URL is fetched more than once during a crawl, failed fetches    *)
(* included, and no URL appears twice in pages.                            *)
(***************************************************************************)
C2_FetchOnce ==
    /\ NoDuplicates(fetch_log)
    /\ NoDuplicates([i \in 1..Len(pages_data) |-> pages_data[i].url])

(* C2 witness: three URLs were fetched, one of them without a page record, and
   more internal links were counted than there are URLs known: some URL was
   discovered again after it was visited or queued *)
C2_Witness ==
    /\ Len(fetch_log) >= 3
    /\ Len(pages_data) >= 2
    /\ FailedAttempts >= 1
    /\ site_metadata.internal_links > Cardinality(visited_urls \cup QueuedUrls)

(***************************************************************************)
(* C3.  The size of the visited set never exceeds max_pages in any         *)
(* reachable state; every attempted URL, successful or failed, is in the   *)
(* visited set exactly once, so pages_crawled plus the failed attempts     *)
(* equals the visited count.                                               *)
(* With a negative max_pages (accepted by the constructor, see C13) the    *)
(* visited count 0 exceeds max_pages from the first state on.              *)
(***************************************************************************)
C3_VisitedWithinBudget ==
    /\ Cardinality(visited_urls) <= max_pages
    /\ Len(fetch_log) = Cardinality(visited_urls)
    /\ site_metadata.pages_crawled + FailedAttempts = Cardinality(visited_urls)

(* C3 for max_pages >= 0: the same statement, which holds *)
C3_VisitedWithinBudget_NonNegative == max_pages >= 0 => C3_VisitedWithinBudget

(***************************************************************************)
(* C4.  When same_domain_only is true, every page record's URL has the     *)
(* seed URL's host.                                                        *)
(***************************************************************************)
C4_SameDomainPages ==
    same_domain_only =>
        \A i \in 1..Len(pages_data) :
            urlparse(pages_data[i].url).netloc = urlparse(start_url).netloc

(* C4 witness: same_domain_only is on, a processed page carried a link to
   another host (the 250-word and the 301-word documents do), and pages were
   recorded after it *)
C4_Witness ==
    /\ same_domain_only
    /\ Len(pages_data) >= 3
    /\ pages_data[1].word_count \in {250, 301}

(***************************************************************************)
(* C5.  A step in which the fetch fails (requests raises, the status is    *)
(* not 200, or the content type is not HTML) adds the URL to the visited   *)
(* set, removes it from the frontier and changes nothing else: pages,      *)
(* structured_data and all of the metadata stay as they were, and the      *)
(* loop keeps running.                                                     *)
(***************************************************************************)
C5_FetchFailureFrame ==
    [][ last'.response \in FailureResponses =>
            /\ visited_urls' = visited_urls \cup {Head(to_visit)}
            /\ to_visit' = Tail(to_visit)
            /\ pages_data' = pages_data
            /\ structured_data' = structured_data
            /\ site_metadata' = site_metadata
            /\ pc' = "running" ]_vars

(* C5 witness: a fetch answered with a non-200 status after pages were
   processed, with URLs still queued *)
C5_Witness ==
    /\ last.response = "status"
    /\ last.kind = "fetch_failed"
    /\ Len(pages_data) >= 1
    /\ site_metadata.internal_links >= 1
    /\ to_visit # <<>>

(***************************************************************************)
(* C6.  crawl() never raises to its caller because of a bad page: after    *)
(* any fetch failure or processing exception the loop is still running,    *)
(* and when crawl() has returned, the bundle holds the metadata, pages and *)
(* structured_data accumulated so far.                                     *)
(***************************************************************************)
C6_NeverRaises ==
    /\ pc # "raised"
    /\ last.kind \in {"fetch_failed", "page_failed"} => pc = "running"
    /\ pc = "returned" => result = Bundle(site_metadata, pages_data, structured_data)

(* C6 witness: crawl() has returned a partial bundle: a page was recorded, a
   later page raised while it was processed, after its structured data was
   stored *)
C6_Witness ==
    /\ pc = "returned"
    /\ Len(result.pages) >= 1
    /\ \E i \in 1..Len(result.structured_data) :
          result.structured_data[i].url \notin PageUrls

(***************************************************************************)
(* C7.  In every state, total_word_count is the sum of word_count over     *)
(* the page records.                                                       *)
(***************************************************************************)
C7_TotalWordCount == site_metadata.total_word_count = SumWordCounts(pages_data)

(* C7 witness: three pages with different word counts were recorded *)
C7_Witness ==
    /\ Len(pages_data) >= 3
    /\ pages_data[1].word_count # pages_data[2].word_count
    /\ pages_data[3].word_count > 0

(***************************************************************************)
(* C8.  In every state, pages_with_thin_content is the number of page      *)
(* records whose word_count is strictly below 300.                         *)
(***************************************************************************)
C8_ThinContent == site_metadata.pages_with_thin_content = ThinPageCount(pages_data)

(* C8 witness: a page of exactly 300 words, one of 299 and one of 301 were
   recorded, and only the 299-word page is counted *)
C8_Witness ==
    /\ \E i \in 1..Len(pages_data) : pages_data[i].word_count = 300
    /\ \E i \in 1..Len(pages_data) : pages_data[i].word_count = 299
    /\ \E i \in 1..Len(pages_data) : pages_data[i].word_count = 301
    /\ site_metadata.pages_with_thin_content = 1

(***************************************************************************)
(* C9.  For each heading level 1..6, the count in heading_count equals the *)
(* number of entries of that level in the headings lists of all page       *)
(* records.                                                                *)
(***************************************************************************)
C9_HeadingCounts ==
    \A level \in HeadingLevels :
        HeadingCount(site_metadata, level) = HeadingsOfLevel(pages_data, level)

(* C9 witness: two pages with headings were recorded, and level 2 was counted
   three times or more over them *)
C9_Witness ==
    /\ Cardinality({i \in 1..Len(pages_data) : pages_data[i].headings # <<>>}) >= 2
    /\ HeadingCount(site_metadata, 2) >= 3
    /\ HeadingCount(site_metadata, 1) >= 1

(***************************************************************************)
(* C10.  The returned metadata holds avg_word_count exactly when           *)
(* pages_crawled > 0, and then it equals total_word_count / pages_crawled. *)
(***************************************************************************)
C10_AverageWordCount ==
    pc = "returned" =>
        LET m == result.metadata
        IN /\ ("avg_word_count" \in DOMAIN m) <=> (m.pages_crawled > 0)
           /\ "avg_word_count" \in DOMAIN m =>
                 m.avg_word_count.num * m.pages_crawled
                    = m.total_word_count * m.avg_word_count.den

(* C10 witness: a crawl returned an average that is not a whole number, and
   one of its pages had no words *)
C10_Witness ==
    /\ pc = "returned"
    /\ "avg_word_count" \in DOMAIN result.metadata
    /\ result.metadata.total_word_count % result.metadata.pages_crawled # 0
    /\ \E i \in 1..Len(result.pages) : result.pages[i].word_count = 0

(* C10, the other case: a crawl in which every fetch failed returned metadata
   without an average *)
C10_WitnessNoAverage ==
    /\ pc = "returned"
    /\ Len(fetch_log) >= 2
    /\ "avg_word_count" \notin DOMAIN result.metadata

(***************************************************************************)
(* More observations.                                                      *)
(***************************************************************************)
(* the document the last fetch answered with *)
LastSoup == response_log[Len(response_log)].soup

(* the embedded blocks of a document that are syntactically valid JSON *)
ValidBlocks(soup) ==
    SelectSeq(soup, LAMBDA e : e.tag = "script_ld" /\ e.attr \notin {"malformed", "none"})

TypedItems(soup) == SelectSeq(soup, LAMBDA e : e.tag = "itemscope" /\ e.attr # "")

RecordsFor(records, url) == SelectSeq(records, LAMBDA r : r.url = url)

C12_RepeatRejects ==
    \A i, j \in 1..Len(answers) :
        (i < j /\ answers[i].accept /\ answers[j].visited = answers[i].visited)
            => ~answers[j].accept

(***************************************************************************)
(* C12, amended.  If is_valid_url accepted a URL, a later call on the same *)
(* URL rejects it exactly when the URL has been added to the visited set   *)
(* in between; with the same visited set it is accepted again.             *)
(***************************************************************************)
C12_RepeatFollowsVisited ==
    \A i, j \in 1..Len(answers) :
        (i < j /\ answers[i].accept) =>
            (answers[j].accept <=> probe \notin answers[j].visited)

(* C12 witness: a URL was accepted, then marked visited, then rejected *)
C12_Witness ==
    /\ Len(answers) = 2
    /\ answers[1].accept
    /\ answers[2].visited # answers[1].visited
    /\ ~answers[2].accept

(***************************************************************************)
(* C13.  A configuration error fails fast: with a non-positive max_pages   *)
(* or an invalid seed URL the session is rejected before the crawl loop    *)
(* starts; crawl() fetches nothing and never returns a bundle.             *)
(* Neither __init__ nor crawl() looks at the configuration.                *)
(***************************************************************************)
C13_ConfigFailsFast ==
    (max_pages <= 0 \/ ~HasScheme(start_url)) =>
        /\ pc # "returned"
        /\ fetch_log = <<>>

(***************************************************************************)
(* C14.  Scenario: the seed page is fetched, has two internal links and    *)
(* one external link, no structured data and 250 words; same_domain_only   *)
(* is true and max_pages = 1.  After crawl() the result has exactly one    *)
(* page, pages_with_thin_content = 1, has_schema_markup = false, and the   *)
(* frontier holds exactly the two internal URLs, neither of them fetched.  *)
(***************************************************************************)
LinkTargets(soup, url) ==
    LET anchors == SelectSeq(soup, LAMBDA e : e.tag = "a" /\ e.href # <<>>)
    IN [i \in 1..Len(anchors) |->
           IF RaisesValueError(anchors[i].href) \/ anchors[i].href[1] \in SkippedSchemes
           THEN <<>> ELSE urljoin(url, anchors[i].href)]

InternalTargets(soup, url) ==
    {t \in {LinkTargets(soup, url)[i] : i \in 1..Len(LinkTargets(soup, url))} :
        urlparse(t).netloc = urlparse(url).netloc}

IsScenarioDoc(soup, url) ==
    /\ Len(LinkTargets(soup, url)) = 3
    /\ \A i \in 1..3 : LinkTargets(soup, url)[i] # <<>>
    /\ Cardinality(InternalTargets(soup, url)) = 2
    /\ Cardinality({i \in 1..3 :
          urlparse(LinkTargets(soup, url)[i]).netloc # urlparse(url).netloc}) = 1
    /\ \A t \in InternalTargets(soup, url) :
          t # url /\ urlparse(t).fragment = <<>> /\ urlparse(t).query = <<>>
                  /\ ~endswith(t, NonContentExtensions)
    /\ \A i \in 1..Len(soup) : soup[i].tag \notin {"script_ld", "itemscope"}
    /\ \A i \in 1..Len(soup) : soup[i].tag = "title" => soup[i].attr = "string"
    /\ CountWords(ConcatText(StripNonContent(soup))) = 250

ScenarioCrawled ==
    /\ pc = "returned"
    /\ max_pages = 1
    /\ same_domain_only
    /\ start_url = SeedUrl
    /\ Len(response_log) >= 1
    /\ response_log[1].kind = "ok"
    /\ IsScenarioDoc(response_log[1].soup, start_url)

C14_Scenario ==
    ScenarioCrawled =>
        /\ Len(result.pages) = 1
        /\ result.metadata.pages_with_thin_content = 1
        /\ ~result.metadata.has_schema_markup
        /\ Len(to_visit) = 2
        /\ QueuedUrls = InternalTargets(response_log[1].soup, start_url)
        /\ fetch_log = <<start_url>>

(* C14 witness: the scenario was crawled, with the external link listed first,
   and crawl() has returned twice *)
C14_Witness ==
    /\ ScenarioCrawled
    /\ calls = 2
    /\ urlparse(LinkTargets(response_log[1].soup, start_url)[1]).netloc = "other.com"

(***************************************************************************)
(* C15.  A URL enters the frontier at most once over the whole crawl: the  *)
(* sequence of all URLs ever enqueued has no repetition, so the frontier   *)
(* never holds a URL twice and a dequeued URL is never enqueued again.     *)
(***************************************************************************)
C15_EnqueuedOnce ==
    /\ NoDuplicates(enqueue_log)
    /\ NoDuplicates(to_visit)
    /\ \A i \in 1..Len(fetch_log) : fetch_log[i] \notin QueuedUrls

(* C15 witness: the filter accepted more candidates than were enqueued, so a
   link that was already queued has been offered again and dropped *)
C15_Witness ==
    /\ Len(enqueue_log) >= 3
    /\ site_metadata.internal_links + site_metadata.external_links
           > Len(enqueue_log) - 1

(***************************************************************************)
(* C16.  The defensive skip at dequeue time is never taken: the frontier   *)
(* and the visited set are disjoint at every loop iteration boundary, and  *)
(* no iteration ends in the skip branch.                                   *)
(***************************************************************************)
C16_SkipNeverTaken ==
    /\ QueuedUrls \cap visited_urls = {}
    /\ last.kind # "skipped"

(* C16 witness: a fetched page linked to a URL that was already visited, and
   the crawl went on to dequeue another URL afterwards *)
C16_Witness ==
    \E i \in 1..Len(response_log) :
        /\ i < Len(fetch_log)
        /\ response_log[i].kind = "ok"
        /\ \E k \in 1..Len(LinkTargets(response_log[i].soup, fetch_log[i])) :
              LinkTargets(response_log[i].soup, fetch_log[i])[k]
                  \in {fetch_log[m] : m \in 1..i}

(***************************************************************************)
(* C17.  The frontier is strictly FIFO: the URLs fetched so far are, in    *)
(* order, the first URLs that were enqueued, the rest of the enqueued URLs *)
(* still wait in the frontier in that order, and the URLs of the page      *)
(* records are the fetch order with the URLs that gave no record removed.  *)
(***************************************************************************)
PageUrlSeq == [i \in 1..Len(pages_data) |-> pages_data[i].url]

C17_Fifo ==
    /\ enqueue_log = fetch_log \o to_visit
    /\ \A i \in 1..Len(PageUrlSeq) :
          PageUrlSeq[i] = SelectSeq(fetch_log, LAMBDA u : u \in PageUrls)[i]
    /\ Len(PageUrlSeq) = Len(SelectSeq(fetch_log, LAMBDA u : u \in PageUrls))

(* C17 witness: three URLs were fetched, the second fetch failed, the first
   and the third gave a record *)
C17_Witness ==
    /\ Len(fetch_log) = 3
    /\ Len(pages_data) = 2
    /\ pages_data[1].url = fetch_log[1]
    /\ pages_data[2].url = fetch_log[3]

(***************************************************************************)
(* C18.  For every max_pages and every link graph, cyclic ones included,   *)
(* a started crawl loop terminates and crawl() returns; and when the loop  *)
(* exits, the frontier is empty or the visited count has reached           *)
(* max_pages.                                                              *)
(***************************************************************************)
LoopExit == pc = "running" /\ pc' = "returned"

C18_Terminates ==
    /\ (pc = "running") ~> (pc = "returned")
    /\ [][LoopExit => (to_visit = <<>> \/ Cardinality(visited_urls) >= max_pages)]_vars

(* C18 witness: crawl() has returned on a cyclic link graph (a fetched page
   linked back to the seed) with the budget used up and URLs still queued *)
C18_Witness ==
    /\ pc = "returned"
    /\ max_pages >= 2
    /\ Cardinality(visited_urls) = max_pages
    /\ to_visit # <<>>
    /\ \E i \in 2..Len(response_log) :
          /\ response_log[i].kind = "ok"
          /\ \E k \in 1..Len(response_log[i].soup) :
                response_log[i].soup[k].href = start_url

(***************************************************************************)
(* C19.  The filter accepts a URL exactly when none of the five rules      *)
(* applies: the URL is empty; it is in the visited set; it has a fragment; *)
(* same_domain_only is on and its host differs from the seed host; its     *)
(* path ends with a non-content extension.  A query string after the path  *)
(* changes nothing.                                                        *)
(* Line 56 tests the suffix of the whole URL, not of its path, so          *)
(* /pic.jpg?v=1 is accepted and /a?f=x.js is rejected.                     *)
(***************************************************************************)
RuleApplies(url, visited) ==
    \/ url = <<>>
    \/ url \in visited
    \/ urlparse(url).fragment # <<>>
    \/ same_domain_only /\ urlparse(url).netloc # domain
    \/ endswith(urlparse(url).path, NonContentExtensions)

C19_FilterRules ==
    \A i \in 1..Len(answers) :
        answers[i].accept <=> ~RuleApplies(probe, answers[i].visited)

(***************************************************************************)
(* C20.  Link counting is per accepted candidate and not deduplicated:     *)
(* internal_links and external_links are the numbers of anchors the filter *)
(* accepted, summed over all pages on which link extraction ran, each      *)
(* accepted anchor counted as internal iff its host equals the seed host;  *)
(* a URL accepted twice is counted twice.  An anchor behind one whose href *)
(* made urljoin raise was never offered to the filter.                     *)
(***************************************************************************)
Anchors(i) == SelectSeq(response_log[i].soup, LAMBDA e : e.tag = "a")

Followed(e) == e.href # <<>> /\ e.href[1] \notin SkippedSchemes

(* the anchors of the i-th fetched page that reached the filter and passed it;
   the visited set was then the first i fetched URLs *)
AcceptedAnchors(i) ==
    {k \in 1..Len(Anchors(i)) :
        /\ \A m \in 1..k : Followed(Anchors(i)[m]) => ~RaisesValueError(Anchors(i)[m].href)
        /\ Followed(Anchors(i)[k])
        /\ is_valid_url([Self EXCEPT !.visited_urls = {fetch_log[m] : m \in 1..i}],
                        urljoin(fetch_log[i], Anchors(i)[k].href))}

Target(i, k) == urljoin(fetch_log[i], Anchors(i)[k].href)

RECURSIVE AcceptedCount(_, _)
AcceptedCount(n, internal) ==
    IF n = 0 THEN 0
    ELSE AcceptedCount(n - 1, internal)
         + IF response_log[n].kind = "ok"
           THEN Cardinality({k \in AcceptedAnchors(n) :
                    (urlparse(Target(n, k)).netloc = domain) = internal})
           ELSE 0

C20_LinkCounts ==
    /\ site_metadata.internal_links = AcceptedCount(Len(response_log), TRUE)
    /\ site_metadata.external_links = AcceptedCount(Len(response_log), FALSE)

(* C20 witness: one URL was accepted twice on one page and again on a later
   page, and an external link was accepted too *)
C20_Witness ==
    /\ site_metadata.external_links >= 1
    /\ \E i, j \in 1..Len(response_log) :
          /\ i < j
          /\ response_log[i].kind = "ok"
          /\ response_log[j].kind = "ok"
          /\ \E k1, k2 \in AcceptedAnchors(i), m \in AcceptedAnchors(j) :
                /\ k1 # k2
                /\ Target(i, k1) = Target(i, k2)
                /\ Target(i, k1) = Target(j, m)

(***************************************************************************)
(* C21.  A malformed embedded block is skipped without aborting the page:  *)
(* on a page with any mix of valid and malformed blocks (and nothing else  *)
(* that could fail), exactly the valid blocks give one record each, in     *)
(* document order, microdata extraction still runs, and the page is added  *)
(* to pages with pages_crawled incremented.                                *)
(* json.loads raises RecursionError on a syntactically valid block that is *)
(* nested too deep; line 93 does not catch it and the page is lost.        *)
(***************************************************************************)
(* nothing but the embedded blocks can fail on this document *)
SoundOutsideBlocks(soup) ==
    \A i \in 1..Len(soup) :
        /\ soup[i].tag = "title" => soup[i].attr # "nostring"
        /\ soup[i].tag = "a" => ~RaisesValueError(soup[i].href)

ExpectedRecords(soup, url) ==
    [i \in 1..Len(ValidBlocks(soup)) |->
        [url |-> url, type |-> "JSON-LD", data |-> <<ValidBlocks(soup)[i].attr>>]]
    \o (IF TypedItems(soup) # <<>>
        THEN <<[url |-> url, type |-> "Microdata",
                data |-> [i \in 1..Len(TypedItems(soup)) |->
                             [type |-> TypedItems(soup)[i].attr, url |-> url]]]>>
        ELSE <<>>)

PageKept(url) ==
    /\ last.kind = "processed"
    /\ pages_data # <<>>
    /\ pages_data[Len(pages_data)].url = url
    /\ site_metadata.pages_crawled = Len(pages_data)

C21_MalformedSkipped ==
    (last.response = "ok" /\ SoundOutsideBlocks(LastSoup)) =>
        /\ PageKept(last.url)
        /\ RecordsFor(structured_data, last.url) = ExpectedRecords(LastSoup, last.url)

(* the same for pages whose blocks json.loads either parses or rejects with
   JSONDecodeError or TypeError: this much the code does *)
C21_DecodableBlocks ==
    ( /\ last.response = "ok"
      /\ SoundOutsideBlocks(LastSoup)
      /\ \A i \in 1..Len(LastSoup) : LastSoup[i].attr # "deep" ) =>
        /\ PageKept(last.url)
        /\ RecordsFor(structured_data, last.url) = ExpectedRecords(LastSoup, last.url)

(***************************************************************************)
(* C22.  Site title and description are set only from the seed page: a     *)
(* step that processes a URL other than the seed URL leaves them           *)
(* unchanged, and at every moment they are the title and the meta          *)
(* description of the seed page's record if the seed has a record in       *)
(* pages, and empty otherwise.                                             *)
(***************************************************************************)
SeedRecords == RecordsFor(pages_data, start_url)

SeedOnlyTitle ==
    IF SeedRecords # <<>>
    THEN /\ site_metadata.title = SeedRecords[1].title
         /\ site_metadata.description = SeedRecords[1].meta_description
    ELSE /\ site_metadata.title = <<>>
         /\ site_metadata.description = <<>>

C22_TitleFromSeedOnly ==
    /\ []SeedOnlyTitle
    /\ [][last'.url # start_url =>
            /\ site_metadata'.title = site_metadata.title
            /\ site_metadata'.description = site_metadata.description]_vars

(* C22 witness: the seed page gave the site its title and description, and a
   later page with another title was processed without changing them *)
C22_Witness ==
    /\ Len(pages_data) >= 2
    /\ pages_data[1].url = start_url
    /\ site_metadata.title = pages_data[1].title
    /\ site_metadata.description # <<>>
    /\ last.kind = "processed"
    /\ pages_data[Len(pages_data)].title # <<>>
    /\ pages_data[Len(pages_data)].title # site_metadata.title

(***************************************************************************)
(* C23.  Q/A pairing: for every question-bearing element (h2-h4 or strong  *)
(* whose text contains "?") of a page, a pair is emitted iff some          *)
(* paragraph element follows it in document order, and the answer is the   *)
(* text of the first such paragraph; the pairs come in document order, and *)
(* a question with no following paragraph contributes no pair.             *)
(* Line 171 matches on the element's .string, not on its text: a question  *)
(* heading with nested markup is followed by a paragraph and gets no pair. *)
(***************************************************************************)
QuestionBearing(e) == e.tag \in {"h2", "h3", "h4", "strong"} /\ HasQuestionMark(e.text)

ParagraphsAfter(i) == {j \in (i+1)..Len(doc) : doc[j].tag = "p"}

AnsweredQuestions ==
    {i \in 1..Len(doc) : QuestionBearing(doc[i]) /\ ParagraphsAfter(i) # {}}

FirstOf(S) == CHOOSE j \in S : \A m \in S : j <= m

(* the pairs the statement asks for, in document order *)
RECURSIVE PairsOf(_)
PairsOf(S) ==
    IF S = {} THEN <<>>
    ELSE <<[question |-> doc[FirstOf(S)].text,
            answer |-> doc[FirstOf(ParagraphsAfter(FirstOf(S)))].text]>>
         \o PairsOf(S \ {FirstOf(S)})

C23_QaPairing ==
    extracted # <<>> => extracted[1].qa_pairs = PairsOf(AnsweredQuestions)

(* the same for pages whose question elements hold one plain string each:
   this much the code does *)
C23_PlainQuestions ==
    (extracted # <<>> /\ \A i \in 1..Len(doc) : doc[i].attr # "nostring") =>
        extracted[1].qa_pairs = PairsOf(AnsweredQuestions)

(* a page where the plain-question case happens: a question followed by two
   different paragraphs and then a trailing question gives one pair *)
C23_PlainCase ==
    /\ extracted # <<>>
    /\ Len(doc) = 4
    /\ \A i \in 1..Len(doc) : doc[i].attr # "nostring"
    /\ QuestionBearing(doc[1])
    /\ doc[2].tag = "p" /\ doc[3].tag = "p" /\ doc[2].text # doc[3].text
    /\ QuestionBearing(doc[4])
    /\ Len(extracted[1].qa_pairs) = 1
    /\ extracted[1].qa_pairs[1].answer = doc[2].text

(***************************************************************************)
(* C24.  Per-page effects are all-or-nothing with respect to pages: if a   *)
(* fetched URL has no record in pages, then none of its links were         *)
(* enqueued or counted and no structured_data record carries its URL;      *)
(* every structured_data record's url is the url of some record in pages.  *)
(* Links are enqueued and counted (lines 222-226) and structured data is   *)
(* stored (lines 229-231) before extract_page_content can raise (line      *)
(* 119), and the except at line 240 undoes nothing.                        *)
(***************************************************************************)
RECURSIVE KeptAcceptedCount(_)
(* the accepted anchors of the first n fetched pages that have a record *)
KeptAcceptedCount(n) ==
    IF n = 0 THEN 0
    ELSE KeptAcceptedCount(n - 1)
         + IF fetch_log[n] \in PageUrls THEN Cardinality(AcceptedAnchors(n)) ELSE 0

C24_AllOrNothing ==
    /\ \A k \in 1..Len(structured_data) : structured_data[k].url \in PageUrls
    /\ site_metadata.internal_links + site_metadata.external_links
           = KeptAcceptedCount(Len(fetch_log))
    /\ \A k \in 2..Len(enqueue_log) :
          \E i \in 1..Len(fetch_log) :
              /\ fetch_log[i] \in PageUrls
              /\ \E a \in AcceptedAnchors(i) : Target(i, a) = enqueue_log[k]

(* the part of it that the code keeps: a failed fetch (exception, status,
   content type) changes nothing but the visited set *)
C24_FetchFailureOnly ==
    (\A i \in 1..Len(response_log) :
        response_log[i].kind = "ok" => fetch_log[i] \in PageUrls) =>
    C24_AllOrNothing

(***************************************************************************)
(* C25.  At every loop iteration boundary and in the result,               *)
(* has_schema_markup is true if and only if the structured_data list is    *)
(* non-empty.                                                              *)
(* The flag is set inside extract_structured_data (line 92) while the      *)
(* records reach self.structured_data only after it returned (line 231):   *)
(* when json.loads raises RecursionError on a later block of the page, the *)
(* flag stays and the records are lost.                                    *)
(***************************************************************************)
C25_FlagIffRecords ==
    /\ site_metadata.has_schema_markup <=> structured_data # <<>>
    /\ calls >= 1 =>
          (result.metadata.has_schema_markup <=> result.structured_data # <<>>)

(* without a block that json.loads fails on in that way the two agree *)
C25_DecodableBlocks ==
    (\A i \in 1..Len(response_log) : \A k \in 1..Len(response_log[i].soup) :
        response_log[i].soup[k].attr # "deep") => C25_FlagIffRecords

(***************************************************************************)
(* C26.  When same_domain_only is true, external_links is 0 in every       *)
(* reachable state and in the result: a link to another host is rejected   *)
(* by the filter before it is classified and counted.                      *)
(***************************************************************************)
C26_NoExternalWhenSameDomain ==
    same_domain_only =>
        /\ site_metadata.external_links = 0
        /\ calls >= 1 => result.metadata.external_links = 0

(* C26 witness: with same_domain_only on, a processed page offered a link to
   another host next to internal links that were counted *)
C26_Witness ==
    /\ same_domain_only
    /\ last.kind = "processed"
    /\ site_metadata.internal_links >= 2
    /\ \E k \in 1..Len(Anchors(Len(response_log))) :
          /\ Followed(Anchors(Len(response_log))[k])
          /\ urlparse(Target(Len(response_log), k)).netloc \notin {"", domain}

(***************************************************************************)
(* C27.  A second crawl() on the same session, after the first call has    *)
(* returned, performs no further fetch, leaves the visited set, the        *)
(* frontier, pages, structured_data and all of the metadata unchanged, and *)
(* returns the same bundle as the first call.                              *)
(***************************************************************************)
C27_SecondCallIdle ==
    [][calls >= 1 =>
          /\ fetch_log' = fetch_log
          /\ visited_urls' = visited_urls
          /\ to_visit' = to_visit
          /\ pages_data' = pages_data
          /\ structured_data' = structured_data
          /\ site_metadata' = site_metadata
          /\ result' = result]_vars

(* C27 witness: crawl() has returned a second time on a session that had
   recorded pages, failed on a fetch and left URLs in the frontier *)
C27_Witness ==
    /\ calls = 2
    /\ pc = "returned"
    /\ Len(pages_data) >= 2
    /\ FailedAttempts >= 1
    /\ to_visit # <<>>
    /\ result.pages = pages_data

=============================================================================
